---------------------------- MODULE Spec2Model ----------------------------
(***************************************************************************)
(* A model of hydropandas/io/lizard.py: the Lizard groundwater reader.     *)
(*                                                                         *)
(*   SpecTube    get_metadata_tube, then get_timeseries_tube, on one       *)
(*               station (the path of get_lizard_groundwater)              *)
(*   SpecSeries  get_timeseries_uuid, then check_status_obs, on one series *)
(*   SpecCodes   the loop of get_obs_list_from_codes                       *)
(*   SpecExtent  the two thread pools of get_obs_list_from_extent          *)
(*                                                                         *)
(* Python values of mixed type are tagged tuples: None is <<"None">>, an   *)
(* int n is <<"int", n>>, a str s is <<"str", s>>.  Strings the code takes *)
(* apart (filter codes) are sequences of one-character strings.  A         *)
(* timestamp is a number of hours since an epoch.                          *)
(***************************************************************************)
EXTENDS Integers, Sequences, FiniteSets, TLC

VARIABLES
    \* SpecTube
    pcT,                \* "start" | "metadata" | "returned" | "raised"
    metadata_mw,        \* the station's metadata, as the API gave it
    tube_nr,            \* the requested tube number, None or an int
    type_timeseries,    \* "hand" | "diver" | "merge" | "combine"
    tube_metadata,      \* the dict get_metadata_tube built
    hand_measurements,  \* what get_timeseries_uuid returned for uuid_hand
    diver_measurements, \* what get_timeseries_uuid returned for uuid_diver
    measurements,       \* what get_timeseries_tube returned
    raisedT,            \* the exception that left the call, or NoError
    requested,          \* the series details requested so far
    \* SpecSeries
    pcS,                \* "start" | "fetched" | "checked" | "raised"
    time_series_events, \* the events the API returned
    series_df,          \* what get_timeseries_uuid returned
    clock,              \* today's date, a day number
    status_metadata,    \* the metadata dict given to check_status_obs
    raisedS,            \* the exception that left check_status_obs, or NoError
    \* SpecCodes
    pcC,                \* "start" | "loop" | "returned" | "raised"
    api,                \* the API's stations: code -> <<>> or <<station>>
    codes_arg,          \* the codes argument: a str, a list, or no iterable
    tube_arg,           \* the tube_nr argument: "all" or an int
    codes,              \* the list the loop runs over
    code_at,            \* the position of the loop in codes
    local_tube_nr,      \* the function's local tube_nr
    l,                  \* the list of observations built so far
    raisedC,            \* the exception that left the call, or NoError
    \* SpecExtent
    pcE,                \* "start" | "discovery" | "discovery_exit" | "fanout"
                        \* | "fanout_exit" | "returned" | "raised"
    nr_results,         \* the count the API reported
    page_size,          \* the page_size argument
    extent_tube,        \* the tube_nr argument
    nr_threads,         \* max_workers of the discovery pool
    urls,               \* the page parameter of each URL of _prepare_API_input
    page_future,        \* per URL: "pending" | "running" | "done" | "failed" | "cancelled"
    page_next,          \* the future whose result the first loop waits for
    arg_codes,          \* the station codes collected from the pages
    task_future,        \* per station code, as page_future
    task_result,        \* per station code, what its task returned
    task_next,          \* the future whose result the second loop waits for
    obs_list,           \* the observations collected so far
    raisedE             \* the exception that left the call, or NoError

varsTube == <<pcT, metadata_mw, tube_nr, type_timeseries, tube_metadata,
              hand_measurements, diver_measurements, measurements, raisedT,
              requested>>

varsSeries == <<pcS, time_series_events, series_df, clock, status_metadata, raisedS>>

varsCodes == <<pcC, api, codes_arg, tube_arg, codes, code_at, local_tube_nr, l,
               raisedC>>

varsExtent == <<pcE, nr_results, page_size, extent_tube, nr_threads, urls,
                page_future, page_next, arg_codes, task_future, task_result,
                task_next, obs_list, raisedE>>

vars == <<varsTube, varsSeries, varsCodes, varsExtent>>

----------------------------------------------------------------------------
(* Bounds of the model *)

MaxFilters == 2
MaxEvents == 2
MaxCodes == 2
MaxCount == 5
MaxPageSize == 2
MaxWorkers == 2

----------------------------------------------------------------------------
(* Python values *)

None == <<"None">>
PyInt(n) == <<"int", n>>
PyStr(s) == <<"str", s>>
NaN == <<"NaN">>
Num(n) == <<"num", n>>

NoError == [err |-> "none"]
Raise(kind, about) == [err |-> kind, about |-> about]

Min(S) == CHOOSE x \in S : \A y \in S : x <= y
Max(S) == CHOOSE x \in S : \A y \in S : x >= y

\* dict.get(key): None for an absent key
Get(d, key) == IF key \in DOMAIN d THEN d[key] ELSE "None"

\* dict.pop(key): the dict without the key
Pop(d, key) == [k \in DOMAIN d \ {key} |-> d[k]]

----------------------------------------------------------------------------
(* Strings as sequences of characters *)

Digit(n) == CASE n = 0 -> "0" [] n = 1 -> "1" [] n = 2 -> "2" [] n = 3 -> "3"
              [] n = 4 -> "4" [] n = 5 -> "5" [] n = 6 -> "6" [] n = 7 -> "7"
              [] n = 8 -> "8" [] n = 9 -> "9"

DigitValue(c) == CASE c = "0" -> 0 [] c = "1" -> 1 [] c = "2" -> 2 [] c = "3" -> 3
                   [] c = "4" -> 4 [] c = "5" -> 5 [] c = "6" -> 6 [] c = "7" -> 7
                   [] c = "8" -> 8 [] c = "9" -> 9

\* str(n) of a non-negative int
RECURSIVE Str(_)
Str(n) == IF n < 10 THEN <<Digit(n)>> ELSE Str(n \div 10) \o <<Digit(n % 10)>>

\* int(s) of a string of digits
RECURSIVE IntOf(_)
IntOf(s) == IF s = <<>> THEN 0
            ELSE 10 * IntOf(SubSeq(s, 1, Len(s) - 1)) + DigitValue(s[Len(s)])

\* s.endswith(suffix)
EndsWith(s, suffix) ==
    /\ Len(suffix) <= Len(s)
    /\ SubSeq(s, Len(s) - Len(suffix) + 1, Len(s)) = suffix

\* s[-3:]
Last3(s) == IF Len(s) <= 3 THEN s ELSE SubSeq(s, Len(s) - 2, Len(s))

\* s.replace("-", "")
RemoveDash(s) == SelectSeq(s, LAMBDA c : c # "-")

----------------------------------------------------------------------------
(* Time.  The API's time strings are <<"str", date, hh, tail>>, read as    *)
(* "<date>T<hh>:00:00<tail>" with date the day number of a calendar date;  *)
(* a null time is None.                                                    *)

TimeStr(date, hh, tail) == <<"str", date, hh, tail>>

HoursPerDay == 24

\* pd.to_datetime(s, format="%Y-%m-%dT%H:%M:%SZ", errors="coerce"):
\* <<t>> for a string the format matches, <<>> (NaT) for anything else
to_datetime(s) ==
    IF s[1] = "str" /\ s[3] \in 0..23 /\ s[4] = "Z"
    THEN <<s[2] * HoursPerDay + s[3]>>
    ELSE <<>>

\* a fetcher that forgets the shift
PlusOneHour_unshifted(t) == t

\* NaT + pd.DateOffset(hours=1) is NaT
PlusOneHour(t) == IF t = <<>> THEN <<>> ELSE <<t[1] + 1>>

----------------------------------------------------------------------------
(* DataFrames: the column labels, the name of the index and the rows, each *)
(* row with its index value (time) and its cells.                          *)

EmptyDataFrame == [columns |-> <<>>, index_name |-> "None", rows |-> <<>>]

\* DataFrame.empty: an axis of length 0
IsEmpty(df) == df.columns = <<>> \/ df.rows = <<>>

IsValidRow(r) == r.value # NaN \/ r.flag # NaN \/ r.comment # NaN

ValidPositions(df) == {i \in 1..Len(df.rows) : IsValidRow(df.rows[i])}

\* DataFrame.first_valid_index() / last_valid_index(): None without a valid row
first_valid_index(df) ==
    IF df.columns = <<>> \/ ValidPositions(df) = {} THEN <<>>
    ELSE <<df.rows[Min(ValidPositions(df))].time>>

last_valid_index(df) ==
    IF df.columns = <<>> \/ ValidPositions(df) = {} THEN <<>>
    ELSE <<df.rows[Max(ValidPositions(df))].time>>

----------------------------------------------------------------------------
(* translate_flag *)

translate_dic(code) ==
    CASE code \in {0, 1} -> PyStr("betrouwbaar")
      [] code \in {3, 4} -> PyStr("onbeslist")
      [] code \in {6, 7} -> PyStr("onbetrouwbaar")
      [] code = 99 -> PyStr("onongevalideerd")
      [] code = 0 - 99 -> PyStr("verwijderd")
      [] OTHER -> PyInt(code)

translate_flag(flag) == IF flag[1] = "int" THEN translate_dic(flag[2]) ELSE flag

----------------------------------------------------------------------------
(* get_timeseries_uuid, on the events the API returned for the uuid *)

ShiftedTime(event) == PlusOneHour(to_datetime(event.time))

KeepRow(event) == ShiftedTime(event) # <<>>

RowOf(event) ==
    [time |-> ShiftedTime(event)[1], value |-> event.value,
     flag |-> translate_flag(event.flag), comment |-> event.comment]

get_timeseries_uuid(events) ==
    IF events = <<>> THEN EmptyDataFrame
    ELSE LET kept == SelectSeq(events, KeepRow)
         IN  [columns |-> <<"value", "flag", "comment">>,
              index_name |-> "peil_datum_tijd",
              rows |-> [i \in 1..Len(kept) |-> RowOf(kept[i])]]

----------------------------------------------------------------------------
(* check_status_obs, with the clock's "today" (a day number) *)

ActiveDays == 180

\* a threshold that counts the 180th day as recent
IsRecent_inclusive(today, last_measurement_date) ==
    today * HoursPerDay - last_measurement_date <= ActiveDays * HoursPerDay

IsRecent(today, last_measurement_date) ==
    today * HoursPerDay - last_measurement_date < ActiveDays * HoursPerDay

StatusOf(timeseries, today) ==
    IF IsEmpty(timeseries) THEN "no timeseries available"
    ELSE IF IsRecent(today, last_valid_index(timeseries)[1]) THEN "active"
    ELSE "inactive"

\* [metadata, raised]: today - None raises TypeError before any status is set
check_status_obs(metadata, timeseries, today) ==
    IF ~IsEmpty(timeseries) /\ last_valid_index(timeseries) = <<>>
    THEN [metadata |-> metadata, raised |-> Raise("TypeError", "today - None")]
    ELSE [metadata |-> ("status" :> StatusOf(timeseries, today)) @@ metadata,
          raised |-> NoError]

----------------------------------------------------------------------------
(* _merge_timeseries and _combine_timeseries.  Both return                 *)
(* [df, raised].  pandas2 is the build: from pandas 2.0 the index of       *)
(* pd.DataFrame() is a RangeIndex, whose comparison with a Timestamp       *)
(* raises TypeError; before, it is an empty object Index and compares.     *)

Returned(df) == [df |-> df, raised |-> NoError]
Raised(kind, about) == [df |-> EmptyDataFrame, raised |-> Raise(kind, about)]

HasColumn(df, label) == \E i \in 1..Len(df.columns) : df.columns[i] = label

\* hand_measurements.loc[hand_measurements.index < first]
RowsBefore(df, first) == SelectSeq(df.rows, LAMBDA r : r.time < first)

\* pd.concat([a, b], axis=0)
ConcatRows(a, b) ==
    [columns |-> IF a.columns = <<>> THEN b.columns ELSE a.columns,
     index_name |-> IF a.index_name = b.index_name THEN a.index_name ELSE "None",
     rows |-> a.rows \o b.rows]

_merge_timeseries(hand, diver, pandas2) ==
    IF IsEmpty(hand) /\ IsEmpty(diver) THEN Returned(EmptyDataFrame)
    ELSE IF first_valid_index(diver) = <<>>
    THEN \* print(... hand_measurements.iloc[0]["name"])
         IF hand.rows = <<>> THEN Raised("IndexError", "iloc[0]")
         ELSE IF ~HasColumn(hand, "name") THEN Raised("KeyError", "name")
         ELSE Returned(hand)
    ELSE IF hand.index_name = "None" /\ pandas2
    THEN Raised("TypeError", "index < Timestamp")
    ELSE Returned(ConcatRows(
             [hand EXCEPT !.rows = RowsBefore(hand, first_valid_index(diver)[1])],
             diver))

Times(df) == {df.rows[i].time : i \in 1..Len(df.rows)}

HasDuplicates(df) == Cardinality(Times(df)) < Len(df.rows)

IndexOf(df) == [i \in 1..Len(df.rows) |-> df.rows[i].time]

\* rename(columns={"value": "value_<side>", "flag": "flag_<side>"})
Renamed(df, side) ==
    [i \in 1..Len(df.columns) |->
        IF df.columns[i] = "value" THEN "value_" \o side
        ELSE IF df.columns[i] = "flag" THEN "flag_" \o side
        ELSE df.columns[i]]

RECURSIVE SortedSeq(_)
SortedSeq(S) == IF S = {} THEN <<>> ELSE <<Min(S)>> \o SortedSeq(S \ {Min(S)})

\* the cell of the first row of df at time t, NaN when df has no such row
CellAt(df, t, field) ==
    LET at == {i \in 1..Len(df.rows) : df.rows[i].time = t}
    IN  IF at = {} THEN NaN
        ELSE IF field = "value" THEN df.rows[Min(at)].value
        ELSE df.rows[Min(at)].flag

\* pd.concat([hand, diver], axis=1).loc[:, [value_hand, value_diver, flag_hand, flag_diver]]
CombinedRows(hand, diver) ==
    LET index == SortedSeq(Times(hand) \cup Times(diver))
    IN  [i \in 1..Len(index) |->
            [time |-> index[i],
             value_hand |-> CellAt(hand, index[i], "value"),
             value_diver |-> CellAt(diver, index[i], "value"),
             flag_hand |-> CellAt(hand, index[i], "flag"),
             flag_diver |-> CellAt(diver, index[i], "flag")]]

_combine_timeseries(hand, diver) ==
    LET hand_columns == Renamed(hand, "hand")
        diver_columns == Renamed(diver, "diver")
        has(label) == \/ \E i \in 1..Len(hand_columns) : hand_columns[i] = label
                      \/ \E i \in 1..Len(diver_columns) : diver_columns[i] = label
    IN  IF (HasDuplicates(hand) \/ HasDuplicates(diver)) /\ IndexOf(hand) # IndexOf(diver)
        THEN Raised("InvalidIndexError", "concat")
        ELSE IF ~(has("value_hand") /\ has("value_diver")
                  /\ has("flag_hand") /\ has("flag_diver"))
        THEN Raised("KeyError", "value_hand, value_diver, flag_hand, flag_diver")
        ELSE IF ~HasColumn(hand, "name") THEN Raised("KeyError", "name")
        ELSE IF hand.rows = <<>> THEN Raised("IndexError", "[0]")
        ELSE IF ~HasColumn(hand, "filter_nr") THEN Raised("KeyError", "filter_nr")
        ELSE Returned([columns |-> <<"value_hand", "value_diver", "flag_hand",
                                     "flag_diver", "name", "filter_nr">>,
                       index_name |-> "peil_datum_tijd",
                       rows |-> CombinedRows(hand, diver)])

----------------------------------------------------------------------------
(* get_metadata_tube *)

\* if tube_nr is None: tube_nr = 1
DefaultTubeNr(nr) == IF nr = None THEN 1 ELSE nr[2]

\* a loop without its break: the last matching filter
MatchTube_last(filters, nr) ==
    LET hits == {i \in 1..Len(filters) : EndsWith(filters[i].code, Str(nr))}
    IN  IF hits = {} THEN 0 ELSE Max(hits)

\* a loop that demands a single matching filter
MatchTube_unique(filters, nr) ==
    LET hits == {i \in 1..Len(filters) : EndsWith(filters[i].code, Str(nr))}
    IN  IF Cardinality(hits) # 1 THEN 0 ELSE Min(hits)

\* for metadata_tube in filters: if code.endswith(str(tube_nr)): break
\* the position of the filter the loop stops at, 0 when it runs to its else
MatchTube(filters, nr) ==
    LET hits == {i \in 1..Len(filters) : EndsWith(filters[i].code, Str(nr))}
    IN  IF hits = {} THEN 0 ELSE Min(hits)

\* the series loop: the dict's uuid_/start_ keys after every series detail
\* was read, a later series of the same name overwriting an earlier one
RECURSIVE ClassifySeries(_, _)
ClassifySeries(metadata, timeseries) ==
    IF timeseries = <<>> THEN metadata
    ELSE LET series_info == Head(timeseries)
             next == IF series_info.name = "WNS9040.hand"
                     THEN ("uuid_hand" :> series_info.uuid
                           @@ "start_hand" :> series_info.start) @@ metadata
                     ELSE IF series_info.name = "WNS9040"
                     THEN ("uuid_diver" :> series_info.uuid
                           @@ "start_diver" :> series_info.start) @@ metadata
                     ELSE metadata
         IN  ClassifySeries(next, Tail(timeseries))

\* a derivation that asks whether the start_ keys exist, not whether their
\* values are null
TimeseriesType_by_key(metadata) ==
    IF "start_hand" \notin DOMAIN metadata /\ "start_diver" \notin DOMAIN metadata
    THEN "None"
    ELSE IF "start_hand" \in DOMAIN metadata /\ "start_diver" \in DOMAIN metadata
    THEN "diver + hand"
    ELSE IF "start_hand" \notin DOMAIN metadata THEN "diver"
    ELSE "hand"

TimeseriesType(metadata) ==
    IF Get(metadata, "start_hand") = "None" /\ Get(metadata, "start_diver") = "None"
    THEN "None"
    ELSE IF Get(metadata, "start_hand") # "None" /\ Get(metadata, "start_diver") # "None"
    THEN "diver + hand"
    ELSE IF Get(metadata, "start_hand") = "None" THEN "diver"
    ELSE "hand"

\* [metadata, raised, requests]: requests are the series details fetched
get_metadata_tube(mw, nr_or_none) ==
    LET nr == DefaultTubeNr(nr_or_none)
        metadata == [monitoring_well |-> mw.name,
                     ground_level |-> mw.surface_level,
                     source |-> "lizard",
                     unit |-> "m NAP",
                     metadata_available |-> "True",
                     status |-> "None"]
        at == MatchTube(mw.filters, nr)
    IN  IF at = 0
        THEN [metadata |-> metadata, requests |-> <<>>,
              raised |-> Raise("ValueError", <<mw.name, nr>>)]
        ELSE LET metadata_tube == mw.filters[at]
                 located == [tube_nr |-> PyInt(nr),
                             name |-> RemoveDash(metadata_tube.code),
                             tube_top |-> metadata_tube.top_level,
                             screen_top |-> metadata_tube.filter_top_level,
                             screen_bottom |-> metadata_tube.filter_bottom_level,
                             x |-> <<"EPSG:28992", "x", mw.geometry>>,
                             y |-> <<"EPSG:28992", "y", mw.geometry>>] @@ metadata
                 classified == ClassifySeries(located, metadata_tube.timeseries)
             IN  [metadata |-> ("timeseries_type" :> TimeseriesType(classified))
                                @@ classified,
                  requests |-> [i \in 1..Len(metadata_tube.timeseries) |->
                                   metadata_tube.timeseries[i].uuid],
                  raised |-> NoError]

----------------------------------------------------------------------------
(* get_timeseries_tube.  A local is <<"unbound">> before its assignment,   *)
(* None, or <<"df", frame>>.                                               *)

Unbound == <<"unbound">>
Frame(df) == <<"df", df>>

\* "hand" in timeseries_type, "diver" in timeseries_type
Contains(timeseries_type, side) ==
    \/ timeseries_type = side
    \/ timeseries_type = "diver + hand" /\ side \in {"diver", "hand"}

\* lines 458-473: the frame (or the exception) bound to measurements
SelectMeasurements(type, hand, diver, pandas2) ==
    IF type = "hand" /\ hand # None THEN Returned(hand[2])
    ELSE IF type = "diver" /\ diver # None THEN Returned(diver[2])
    ELSE IF type \in {"merge", "combine"}
    THEN IF hand # None /\ diver # None
         THEN IF type = "merge" THEN _merge_timeseries(hand[2], diver[2], pandas2)
              ELSE _combine_timeseries(hand[2], diver[2])
         ELSE IF hand # None THEN Returned(hand[2])
         ELSE IF diver # None THEN Returned(diver[2])
         ELSE Raised("UnboundLocalError", "measurements")
    ELSE Raised("UnboundLocalError", "measurements")

\* [measurements, metadata, raised, hand, diver]
get_timeseries_tube(metadata, type, events_hand, events_diver, pandas2) ==
    IF metadata["timeseries_type"] = "None"
    THEN [measurements |-> EmptyDataFrame, metadata |-> metadata, raised |-> NoError,
          hand |-> Unbound, diver |-> Unbound]
    ELSE LET ts == metadata["timeseries_type"]
             hand == IF type \in {"hand", "merge", "combine"}
                     THEN IF Contains(ts, "hand")
                          THEN Frame(get_timeseries_uuid(events_hand))
                          ELSE None
                     ELSE Unbound
             diver == IF type \in {"diver", "merge", "combine"}
                      THEN IF Contains(ts, "diver")
                           THEN Frame(get_timeseries_uuid(events_diver))
                           ELSE None
                      ELSE Unbound
             popped_hand == IF hand[1] = "df" THEN Pop(metadata, "uuid_hand")
                            ELSE metadata
             popped == IF diver[1] = "df" THEN Pop(popped_hand, "uuid_diver")
                       ELSE popped_hand
             selected == SelectMeasurements(type, hand, diver, pandas2)
         IN  [measurements |-> selected.df, metadata |-> popped,
              raised |-> selected.raised, hand |-> hand, diver |-> diver]

----------------------------------------------------------------------------
(* What the API holds: stations, their filters, the filters' series *)

SeriesHand == [name |-> "WNS9040.hand", uuid |-> "uuid-hand", start |-> "2001-01-01"]
SeriesDiver == [name |-> "WNS9040", uuid |-> "uuid-diver", start |-> "2005-01-01"]
SeriesOther == [name |-> "WNS9040.val", uuid |-> "uuid-val", start |-> "2003-01-01"]
\* a hand series without any event yet: its start is null
SeriesHandNoStart == [name |-> "WNS9040.hand", uuid |-> "uuid-hand", start |-> "None"]

TimeseriesRefs ==
    {<<>>, <<SeriesHand>>, <<SeriesDiver>>, <<SeriesHand, SeriesDiver>>,
     <<SeriesOther>>, <<SeriesHandNoStart, SeriesDiver>>}

FilterCode(suffix) == <<"B", "2", "7", "-">> \o suffix

Suffixes == {<<"0", "0", "1">>, <<"0", "0", "2">>, <<"0", "1", "1">>}

Filter(suffix, refs) ==
    [code |-> FilterCode(suffix),
     top_level |-> <<"top", suffix>>,
     filter_top_level |-> <<"screen_top", suffix>>,
     filter_bottom_level |-> <<"screen_bottom", suffix>>,
     timeseries |-> refs]

Filters == {Filter(suffix, refs) : suffix \in Suffixes, refs \in TimeseriesRefs}

DistinctCodes(fs) ==
    \A i, j \in 1..Len(fs) : i # j => fs[i].code # fs[j].code

\* the filter lists of up to n filters, no two with the same code
RECURSIVE FilterLists(_)
FilterLists(n) ==
    IF n = 0 THEN {<<>>}
    ELSE LET shorter == FilterLists(n - 1)
             longer == {Append(fs, f) : fs \in {g \in shorter : Len(g) = n - 1},
                                        f \in Filters}
         IN  shorter \cup {fs \in longer : DistinctCodes(fs)}

Station(name, filters) ==
    [name |-> name, surface_level |-> <<"surface_level", name>>,
     geometry |-> <<"lon", "lat", name>>, filters |-> filters]

Stations == {Station("B27", fs) : fs \in FilterLists(MaxFilters)}

TubeNrs == {None, PyInt(1), PyInt(2), PyInt(9)}

Strategies == {"hand", "diver", "merge", "combine"}

\* one filter, ending in 001, with each choice of series
OneTubeStations ==
    {Station("B27", <<Filter(<<"0", "0", "1">>, refs)>>) : refs \in TimeseriesRefs}

Event(time, value, flag, comment) ==
    [time |-> time, value |-> value, flag |-> flag, comment |-> comment]

\* the API's answers of up to n events drawn from E
RECURSIVE EventLists(_, _)
EventLists(E, n) ==
    IF n = 0 THEN {<<>>}
    ELSE LET shorter == EventLists(E, n - 1)
         IN  shorter \cup {Append(es, e) : es \in {g \in shorter : Len(g) = n - 1},
                                           e \in E}

\* events of the tube's series: three measured hours and a row of nulls
TubeEvents ==
    {Event(TimeStr(d, 0, "Z"), Num(d), PyInt(1), NaN) : d \in {20, 21, 22}}
    \cup {Event(TimeStr(21, 0, "Z"), NaN, NaN, NaN)}

\* events of one series around the 180 days before today: well-formed times,
\* times the format does not match, a null time, and rows of nulls
SeriesEvents ==
    {Event(TimeStr(d, h, "Z"), Num(1), PyInt(1), NaN) : d \in {19, 20, 21}, h \in {0, 23}}
    \cup {Event(TimeStr(20, 24, "Z"), Num(1), PyInt(1), NaN),
          Event(TimeStr(20, 0, "+01:00"), Num(1), PyInt(42), PyStr("c")),
          Event(None, Num(1), PyInt(1), NaN),
          Event(TimeStr(21, 0, "Z"), NaN, NaN, NaN),
          Event(TimeStr(19, 23, "Z"), NaN, NaN, NaN)}

Todays == {200, 201}

SampleMetadata ==
    get_metadata_tube(Station("B27", <<Filter(<<"0", "0", "1">>, <<SeriesHand>>)>>),
                      None).metadata

----------------------------------------------------------------------------
(* SpecTube and SpecMeta: get_metadata_tube, then get_timeseries_tube *)

IdleTube ==
    /\ pcT = "idle"
    /\ metadata_mw = Station("B27", <<>>)
    /\ tube_nr = None
    /\ type_timeseries = "merge"
    /\ tube_metadata = <<>>
    /\ hand_measurements = Unbound
    /\ diver_measurements = Unbound
    /\ measurements = EmptyDataFrame
    /\ raisedT = NoError
    /\ requested = <<>>

IdleSeries ==
    /\ pcS = "idle"
    /\ time_series_events = <<>>
    /\ series_df = EmptyDataFrame
    /\ clock = 0
    /\ status_metadata = <<>>
    /\ raisedS = NoError

IdleCodes ==
    /\ pcC = "idle"
    /\ api = <<>>
    /\ codes_arg = None
    /\ tube_arg = None
    /\ codes = <<>>
    /\ code_at = 0
    /\ local_tube_nr = None
    /\ l = <<>>
    /\ raisedC = NoError

IdleExtent ==
    /\ pcE = "idle"
    /\ nr_results = 0
    /\ page_size = 0
    /\ extent_tube = None
    /\ nr_threads = 0
    /\ urls = <<>>
    /\ page_future = <<>>
    /\ page_next = 0
    /\ arg_codes = <<>>
    /\ task_future = <<>>
    /\ task_result = <<>>
    /\ task_next = 0
    /\ obs_list = <<>>
    /\ raisedE = NoError

StartTube(stations, strategies) ==
    /\ pcT = "start"
    /\ metadata_mw \in stations
    /\ tube_nr \in TubeNrs
    /\ type_timeseries \in strategies
    /\ tube_metadata = <<>>
    /\ hand_measurements = Unbound
    /\ diver_measurements = Unbound
    /\ measurements = EmptyDataFrame
    /\ raisedT = NoError
    /\ requested = <<>>

GetMetadataTube ==
    /\ pcT = "start"
    /\ LET got == get_metadata_tube(metadata_mw, tube_nr)
       IN  /\ tube_metadata' = got.metadata
           /\ requested' = got.requests
           /\ raisedT' = got.raised
           /\ pcT' = IF got.raised = NoError THEN "metadata" ELSE "raised"
    /\ UNCHANGED <<metadata_mw, tube_nr, type_timeseries, hand_measurements,
                   diver_measurements, measurements>>
    /\ UNCHANGED <<varsSeries, varsCodes, varsExtent>>

GetTimeseriesTube ==
    /\ pcT = "metadata"
    /\ \E events_hand \in EventLists(TubeEvents, MaxEvents),
          events_diver \in EventLists(TubeEvents, MaxEvents),
          pandas2 \in BOOLEAN :
          LET got == get_timeseries_tube(tube_metadata, type_timeseries,
                                         events_hand, events_diver, pandas2)
          IN  /\ tube_metadata' = got.metadata
              /\ hand_measurements' = got.hand
              /\ diver_measurements' = got.diver
              /\ measurements' = got.measurements
              /\ raisedT' = got.raised
              /\ pcT' = IF got.raised = NoError THEN "returned" ELSE "raised"
    /\ UNCHANGED <<metadata_mw, tube_nr, type_timeseries, requested>>
    /\ UNCHANGED <<varsSeries, varsCodes, varsExtent>>

InitMeta == StartTube(Stations, {"merge"}) /\ IdleSeries /\ IdleCodes /\ IdleExtent
NextMeta == GetMetadataTube
SpecMeta == InitMeta /\ [][NextMeta]_vars

InitTube == StartTube(OneTubeStations, Strategies) /\ IdleSeries /\ IdleCodes /\ IdleExtent
NextTube == GetMetadataTube \/ GetTimeseriesTube
SpecTube == InitTube /\ [][NextTube]_vars

----------------------------------------------------------------------------
(* SpecSeries: get_timeseries_uuid, then check_status_obs *)

GetTimeseriesUuid ==
    /\ pcS = "start"
    /\ \E results \in EventLists(SeriesEvents, MaxEvents) :
          /\ time_series_events' = results
          /\ series_df' = get_timeseries_uuid(results)
    /\ pcS' = "fetched"
    /\ UNCHANGED <<clock, status_metadata, raisedS>>
    /\ UNCHANGED <<varsTube, varsCodes, varsExtent>>

CheckStatusObs ==
    /\ pcS = "fetched"
    /\ LET got == check_status_obs(status_metadata, series_df, clock)
       IN  /\ status_metadata' = got.metadata
           /\ raisedS' = got.raised
           /\ pcS' = IF got.raised = NoError THEN "checked" ELSE "raised"
    /\ UNCHANGED <<time_series_events, series_df, clock>>
    /\ UNCHANGED <<varsTube, varsCodes, varsExtent>>

InitSeries ==
    /\ IdleTube
    /\ IdleCodes
    /\ IdleExtent
    /\ pcS = "start"
    /\ time_series_events = <<>>
    /\ series_df = EmptyDataFrame
    /\ clock \in Todays
    /\ status_metadata = SampleMetadata
    /\ raisedS = NoError

NextSeries == GetTimeseriesUuid \/ CheckStatusObs
SpecSeries == InitSeries /\ [][NextSeries]_vars

----------------------------------------------------------------------------
(* get_lizard_groundwater with only_metadata=True, as ObsClass.from_lizard *)
(* calls it, and get_obs_list_from_codes                                   *)

\* [station, raised]: results[0] of an empty list is the ValueError
get_metadata_mw_from_code(stations, code) ==
    IF code \notin DOMAIN stations \/ stations[code] = <<>>
    THEN [station |-> Station(code, <<>>), raised |-> Raise("ValueError", <<code>>)]
    ELSE [station |-> stations[code][1], raised |-> NoError]

\* [metadata, raised]
get_lizard_groundwater(stations, code, nr) ==
    LET found == get_metadata_mw_from_code(stations, code)
    IN  IF found.raised # NoError THEN [metadata |-> <<>>, raised |-> found.raised]
        ELSE LET got == get_metadata_tube(found.station, nr)
             IN  [metadata |-> got.metadata, raised |-> got.raised]

\* the observation ObsClass.from_lizard builds from the metadata
Obs(code, nr, metadata) == [code |-> code, tube_nr |-> nr, name |-> metadata["name"]]

\* [obs, raised]
from_lizard(stations, code, nr) ==
    LET got == get_lizard_groundwater(stations, code, nr)
    IN  IF got.raised # NoError THEN [obs |-> <<>>, raised |-> got.raised]
        ELSE [obs |-> <<Obs(code, nr, got.metadata)>>, raised |-> NoError]

\* tube_nr = int(metadata_tube["code"][-3:])
TubeNrOf(metadata_tube) == PyInt(IntOf(Last3(metadata_tube.code)))

\* lines 585-595, the loop over the filters of one station:
\* [l, tube_nr, raised], tube_nr being the local the loop assigns
RECURSIVE AllTubes(_, _, _, _, _)
AllTubes(stations, code, filters, nr, built) ==
    IF filters = <<>> THEN [l |-> built, tube_nr |-> nr, raised |-> NoError]
    ELSE LET assigned == TubeNrOf(Head(filters))
             o == from_lizard(stations, code, assigned)
         IN  IF o.raised # NoError
             THEN [l |-> built, tube_nr |-> assigned, raised |-> o.raised]
             ELSE AllTubes(stations, code, Tail(filters), assigned, built \o o.obs)

\* lines 583-600, one turn of the loop over the codes: [l, tube_nr, raised]
OneCode(stations, code, nr, built) ==
    LET found == get_metadata_mw_from_code(stations, code)
    IN  IF found.raised # NoError
        THEN [l |-> built, tube_nr |-> nr, raised |-> found.raised]
        ELSE IF nr = PyStr("all")
        THEN AllTubes(stations, code, found.station.filters, nr, built)
        ELSE LET o == from_lizard(stations, code, nr)
             IN  [l |-> built \o o.obs, tube_nr |-> nr, raised |-> o.raised]

\* get_obs_list_from_codes on one code given as a str: lines 575-576 make it
\* a list of one code, and the loop takes one turn: [l, tube_nr, raised]
get_obs_list_from_codes(stations, code, nr) == OneCode(stations, code, nr, <<>>)

----------------------------------------------------------------------------
(* SpecCodes: get_obs_list_from_codes, one turn of its loop at a time *)

StationCodes == {"A", "B"}

\* the filter lists of up to n filters with distinct codes, each with a hand series
RECURSIVE SuffixLists(_)
SuffixLists(n) ==
    IF n = 0 THEN {<<>>}
    ELSE LET shorter == SuffixLists(n - 1)
             longer == {Append(fs, Filter(suffix, <<SeriesHand>>)) :
                           fs \in {g \in shorter : Len(g) = n - 1},
                           suffix \in Suffixes}
         IN  shorter \cup {fs \in longer : DistinctCodes(fs)}

\* what the API may hold: each code unknown, or a station with some filters
ApiStations ==
    [StationCodes -> {<<>>} \cup {<<Station("B27", fs)>> : fs \in SuffixLists(MaxFilters)}]

RECURSIVE CodeLists(_)
CodeLists(n) ==
    IF n = 0 THEN {<<>>}
    ELSE LET shorter == CodeLists(n - 1)
         IN  shorter \cup {Append(cs, c) : cs \in {g \in shorter : Len(g) = n - 1},
                                           c \in StationCodes}

CodesArgs ==
    {PyStr(c) : c \in StationCodes} \cup {<<"list", cs>> : cs \in CodeLists(MaxCodes)}
    \cup {PyInt(27)}

TubeArgs == {PyStr("all"), PyInt(1), PyInt(2)}

InitCodes ==
    /\ IdleTube
    /\ IdleSeries
    /\ IdleExtent
    /\ pcC = "start"
    /\ api \in ApiStations
    /\ codes_arg \in CodesArgs
    /\ tube_arg \in TubeArgs
    /\ codes = <<>>
    /\ code_at = 0
    /\ local_tube_nr = None
    /\ l = <<>>
    /\ raisedC = NoError

\* lines 575-581
EnterCodes ==
    /\ pcC = "start"
    /\ IF codes_arg[1] = "int"
       THEN /\ pcC' = "raised"
            /\ raisedC' = Raise("TypeError", "argument 'codes' should be an iterable")
            /\ UNCHANGED <<codes, code_at>>
       ELSE /\ pcC' = "loop"
            /\ codes' = IF codes_arg[1] = "str" THEN <<codes_arg[2]>> ELSE codes_arg[2]
            /\ code_at' = 1
            /\ UNCHANGED raisedC
    /\ local_tube_nr' = tube_arg
    /\ l' = <<>>
    /\ UNCHANGED <<api, codes_arg, tube_arg>>
    /\ UNCHANGED <<varsTube, varsSeries, varsExtent>>

\* lines 582-600: one code of the list
NextCode ==
    /\ pcC = "loop"
    /\ code_at <= Len(codes)
    /\ LET turn == OneCode(api, codes[code_at], local_tube_nr, l)
       IN  /\ l' = turn.l
           /\ local_tube_nr' = turn.tube_nr
           /\ raisedC' = turn.raised
           /\ pcC' = IF turn.raised = NoError THEN "loop" ELSE "raised"
    /\ code_at' = code_at + 1
    /\ UNCHANGED <<api, codes_arg, tube_arg, codes>>
    /\ UNCHANGED <<varsTube, varsSeries, varsExtent>>

\* line 602
ReturnCodes ==
    /\ pcC = "loop"
    /\ code_at > Len(codes)
    /\ pcC' = "returned"
    /\ UNCHANGED <<api, codes_arg, tube_arg, codes, code_at, local_tube_nr, l, raisedC>>
    /\ UNCHANGED <<varsTube, varsSeries, varsExtent>>

NextCodes == EnterCodes \/ NextCode \/ ReturnCodes
SpecCodes == InitCodes /\ [][NextCodes]_vars

----------------------------------------------------------------------------
(* SpecExtent: get_obs_list_from_extent.  The API numbers the stations in  *)
(* the extent 1..count and page p holds the stations (p-1)*page_size+1 ..  *)
(* p*page_size of them.  executor.map submits every call at once; a worker *)
(* takes the oldest pending one; the loop takes the results in the order   *)
(* of submission, and the first failed one raises there, cancels what is   *)
(* still pending and leaves the with block once the running calls ended.   *)

\* math.ceil(nr_results / page_size)
Ceil(a, b) == (a + b - 1) \div b

DefaultThreads == 10

\* lines 161-167: urls is assigned, not extended, at each turn
RECURSIVE PagesLoop(_, _, _)
PagesLoop(page, nr_pages, url_list) ==
    IF page >= nr_pages THEN url_list
    ELSE PagesLoop(page + 1, nr_pages, <<page + 1>>)

_prepare_API_input(nr_pages) == PagesLoop(0, nr_pages, <<>>)

\* the station codes on page p
PageCodes(p, count, size) ==
    [i \in 1..(IF p * size <= count THEN size
               ELSE IF (p - 1) * size >= count THEN 0
               ELSE count - (p - 1) * size) |-> (p - 1) * size + i]

\* the stations of the extent: the odd ones have one filter, the even ones two
ExtentStation(code) ==
    Station("B27",
            IF code % 2 = 1 THEN <<Filter(<<"0", "0", "1">>, <<SeriesHand>>)>>
            ELSE <<Filter(<<"0", "0", "1">>, <<SeriesHand>>),
                   Filter(<<"0", "0", "2">>, <<SeriesDiver>>)>>)

ExtentStations == [code \in 1..(MaxCount + 1) |-> <<ExtentStation(code)>>]

Running(futures) == {i \in 1..Len(futures) : futures[i] = "running"}
Pending(futures) == {i \in 1..Len(futures) : futures[i] = "pending"}

\* the finally of executor.map's result iterator: future.cancel() on each
CancelPending(futures) ==
    [i \in 1..Len(futures) |-> IF futures[i] = "pending" THEN "cancelled" ELSE futures[i]]

InitExtent ==
    /\ IdleTube
    /\ IdleSeries
    /\ IdleCodes
    /\ pcE = "start"
    /\ nr_results = 0
    /\ page_size \in 1..MaxPageSize
    /\ extent_tube \in {PyStr("all"), PyInt(2)}
    /\ nr_threads = DefaultThreads
    /\ urls = <<>>
    /\ page_future = <<>>
    /\ page_next = 0
    /\ arg_codes = <<>>
    /\ task_future = <<>>
    /\ task_result = <<>>
    /\ task_next = 0
    /\ obs_list = <<>>
    /\ raisedE = NoError

\* lines 662-677: the count request, the URLs, the first pool and its map
RequestCount ==
    /\ pcE = "start"
    /\ \E count \in 0..MaxCount, answered \in BOOLEAN :
          LET nr_pages == Ceil(count, page_size)
              threads == IF nr_threads > nr_pages THEN nr_pages ELSE nr_threads
              built == _prepare_API_input(nr_pages)
          IN  IF ~answered
              THEN /\ pcE' = "raised"
                   /\ raisedE' = Raise("ConnectionError", "discovery")
                   /\ UNCHANGED <<nr_results, nr_threads, urls, page_future, page_next>>
              ELSE IF threads = 0
              THEN \* ThreadPoolExecutor(max_workers=0)
                   /\ pcE' = "raised"
                   /\ raisedE' = Raise("ValueError", "discovery")
                   /\ nr_results' = count
                   /\ nr_threads' = threads
                   /\ urls' = built
                   /\ UNCHANGED <<page_future, page_next>>
              ELSE /\ pcE' = "discovery"
                   /\ nr_results' = count
                   /\ nr_threads' = threads
                   /\ urls' = built
                   /\ page_future' = [i \in 1..Len(built) |-> "pending"]
                   /\ page_next' = 1
                   /\ UNCHANGED raisedE
    /\ UNCHANGED <<page_size, extent_tube, arg_codes, task_future, task_result,
                   task_next, obs_list>>
    /\ UNCHANGED <<varsTube, varsSeries, varsCodes>>

\* a worker of the first pool takes the oldest pending _download
StartDownload ==
    /\ pcE \in {"discovery", "discovery_exit"}
    /\ Pending(page_future) # {}
    /\ Cardinality(Running(page_future)) < nr_threads
    /\ page_future' = [page_future EXCEPT ![Min(Pending(page_future))] = "running"]
    /\ UNCHANGED <<pcE, nr_results, page_size, extent_tube, nr_threads, urls, page_next,
                   arg_codes, task_future, task_result, task_next, obs_list, raisedE>>
    /\ UNCHANGED <<varsTube, varsSeries, varsCodes>>

\* lines 186-189: a _download returns its page, or raises
FinishDownload ==
    /\ pcE \in {"discovery", "discovery_exit"}
    /\ \E i \in Running(page_future), outcome \in {"done", "failed"} :
          page_future' = [page_future EXCEPT ![i] = outcome]
    /\ UNCHANGED <<pcE, nr_results, page_size, extent_tube, nr_threads, urls, page_next,
                   arg_codes, task_future, task_result, task_next, obs_list, raisedE>>
    /\ UNCHANGED <<varsTube, varsSeries, varsCodes>>

\* a first loop that skips a failed page
CollectPage_skipping ==
    /\ pcE = "discovery"
    /\ page_next <= Len(urls)
    /\ page_future[page_next] \in {"done", "failed"}
    /\ arg_codes' = IF page_future[page_next] = "done"
                    THEN arg_codes \o PageCodes(urls[page_next], nr_results, page_size)
                    ELSE arg_codes
    /\ page_next' = page_next + 1
    /\ UNCHANGED <<pcE, raisedE, page_future>>
    /\ UNCHANGED <<nr_results, page_size, extent_tube, nr_threads, urls, task_future,
                   task_result, task_next, obs_list>>
    /\ UNCHANGED <<varsTube, varsSeries, varsCodes>>

\* lines 677-678: the next result of the map, in the order of the URLs
CollectPage ==
    /\ pcE = "discovery"
    /\ page_next <= Len(urls)
    /\ page_future[page_next] \in {"done", "failed"}
    /\ IF page_future[page_next] = "done"
       THEN /\ arg_codes' = arg_codes \o PageCodes(urls[page_next], nr_results, page_size)
            /\ page_next' = page_next + 1
            /\ UNCHANGED <<pcE, raisedE, page_future>>
       ELSE /\ pcE' = "discovery_exit"
            /\ raisedE' = Raise("ConnectionError", "discovery")
            /\ page_future' = CancelPending(page_future)
            /\ UNCHANGED <<arg_codes, page_next>>
    /\ UNCHANGED <<nr_results, page_size, extent_tube, nr_threads, urls, task_future,
                   task_result, task_next, obs_list>>
    /\ UNCHANGED <<varsTube, varsSeries, varsCodes>>

\* the with block of the first pool is left by the exception
RaiseFromDiscovery ==
    /\ pcE = "discovery_exit"
    /\ Running(page_future) = {}
    /\ pcE' = "raised"
    /\ UNCHANGED <<nr_results, page_size, extent_tube, nr_threads, urls, page_future,
                   page_next, arg_codes, task_future, task_result, task_next, obs_list,
                   raisedE>>
    /\ UNCHANGED <<varsTube, varsSeries, varsCodes>>

\* lines 680-683: the second pool and its map, once the first loop has ended
StartFanout ==
    /\ pcE = "discovery"
    /\ page_next > Len(urls)
    /\ pcE' = "fanout"
    /\ task_future' = [i \in 1..Len(arg_codes) |-> "pending"]
    /\ task_result' = [i \in 1..Len(arg_codes) |-> <<>>]
    /\ task_next' = 1
    /\ UNCHANGED <<nr_results, page_size, extent_tube, nr_threads, urls, page_future,
                   page_next, arg_codes, obs_list, raisedE>>
    /\ UNCHANGED <<varsTube, varsSeries, varsCodes>>

\* a worker of the second pool takes the oldest pending station
StartTask ==
    /\ pcE \in {"fanout", "fanout_exit"}
    /\ Pending(task_future) # {}
    /\ Cardinality(Running(task_future)) < MaxWorkers
    /\ task_future' = [task_future EXCEPT ![Min(Pending(task_future))] = "running"]
    /\ UNCHANGED <<pcE, nr_results, page_size, extent_tube, nr_threads, urls, page_future,
                   page_next, arg_codes, task_result, task_next, obs_list, raisedE>>
    /\ UNCHANGED <<varsTube, varsSeries, varsCodes>>

\* line 683: get_obs_list_from_codes(code, ...) returns its list, or raises:
\* on a request the network fails, or as the function itself does
FinishTask ==
    /\ pcE \in {"fanout", "fanout_exit"}
    /\ \E i \in Running(task_future), network \in BOOLEAN :
          LET got == get_obs_list_from_codes(ExtentStations, arg_codes[i], extent_tube)
          IN  IF network /\ got.raised = NoError
              THEN /\ task_future' = [task_future EXCEPT ![i] = "done"]
                   /\ task_result' = [task_result EXCEPT ![i] = got.l]
              ELSE /\ task_future' = [task_future EXCEPT ![i] = "failed"]
                   /\ UNCHANGED task_result
    /\ UNCHANGED <<pcE, nr_results, page_size, extent_tube, nr_threads, urls, page_future,
                   page_next, arg_codes, task_next, obs_list, raisedE>>
    /\ UNCHANGED <<varsTube, varsSeries, varsCodes>>

\* lines 682-687: the next result of the map, in the order of the codes
CollectTask ==
    /\ pcE = "fanout"
    /\ task_next <= Len(arg_codes)
    /\ task_future[task_next] \in {"done", "failed"}
    /\ IF task_future[task_next] = "done"
       THEN /\ obs_list' = obs_list \o task_result[task_next]
            /\ task_next' = task_next + 1
            /\ UNCHANGED <<pcE, raisedE, task_future>>
       ELSE /\ pcE' = "fanout_exit"
            /\ raisedE' = Raise("Exception", "fanout")
            /\ task_future' = CancelPending(task_future)
            /\ UNCHANGED <<obs_list, task_next>>
    /\ UNCHANGED <<nr_results, page_size, extent_tube, nr_threads, urls, page_future,
                   page_next, arg_codes, task_result>>
    /\ UNCHANGED <<varsTube, varsSeries, varsCodes>>

\* the with block of the second pool is left by the exception
RaiseFromFanout ==
    /\ pcE = "fanout_exit"
    /\ Running(task_future) = {}
    /\ pcE' = "raised"
    /\ UNCHANGED <<nr_results, page_size, extent_tube, nr_threads, urls, page_future,
                   page_next, arg_codes, task_future, task_result, task_next, obs_list,
                   raisedE>>
    /\ UNCHANGED <<varsTube, varsSeries, varsCodes>>

\* line 689
ReturnObsList ==
    /\ pcE = "fanout"
    /\ task_next > Len(arg_codes)
    /\ pcE' = "returned"
    /\ UNCHANGED <<nr_results, page_size, extent_tube, nr_threads, urls, page_future,
                   page_next, arg_codes, task_future, task_result, task_next, obs_list,
                   raisedE>>
    /\ UNCHANGED <<varsTube, varsSeries, varsCodes>>

NextExtent ==
    \/ RequestCount
    \/ StartDownload
    \/ FinishDownload
    \/ CollectPage
    \/ RaiseFromDiscovery
    \/ StartFanout
    \/ StartTask
    \/ FinishTask
    \/ CollectTask
    \/ RaiseFromFanout
    \/ ReturnObsList

SpecExtent == InitExtent /\ [][NextExtent]_vars

----------------------------------------------------------------------------
(* The claims *)

\* C1: the discovery phase builds one page URL per page, with the page
\* parameters 1..ceil(count / page_size), each once (count 5 and page size 2,
\* as count 250 and page size 100: the pages 1, 2 and 3).
C1_OneUrlPerPage ==
    pcE \notin {"idle", "start"} =>
        urls = [page \in 1..Ceil(nr_results, page_size) |-> page]

\* the results of the tasks that returned, in the order of the codes
RECURSIVE ResultsOfDone(_)
ResultsOfDone(i) ==
    IF i > Len(task_future) THEN <<>>
    ELSE (IF task_future[i] = "done" THEN task_result[i] ELSE <<>>)
         \o ResultsOfDone(i + 1)

\* C2: a failed (station, tube) task does not abort the batch: once the call
\* has ended every task has run to its end, the call has returned, and it
\* returned the results of all the tasks that succeeded.
C2_FailureIsolated ==
    (pcE \in {"returned", "raised"} /\ task_future # <<>>) =>
        /\ \A i \in 1..Len(task_future) : task_future[i] \in {"done", "failed"}
        /\ pcE = "returned"
        /\ obs_list = ResultsOfDone(1)

\* the (station, tube) pairs of every filter of every code, in order
RECURSIVE TubesOf(_, _)
TubesOf(code, filters) ==
    IF filters = <<>> THEN <<>>
    ELSE <<[code |-> code, tube_nr |-> PyInt(IntOf(Last3(Head(filters).code)))]>>
         \o TubesOf(code, Tail(filters))

RECURSIVE EveryTube(_)
EveryTube(code_list) ==
    IF code_list = <<>> THEN <<>>
    ELSE TubesOf(Head(code_list), api[Head(code_list)][1].filters)
         \o EveryTube(Tail(code_list))

\* the (station, tube) pairs of the observations returned
PairsOf(observations) ==
    [i \in 1..Len(observations) |->
        [code |-> observations[i].code, tube_nr |-> observations[i].tube_nr]]

\* C3: with tube selection "all", get_obs_list_from_codes returns, for every
\* code of the iterable (each a station the API knows), one observation per
\* filter of that station: one entry for each (station, tube) pair.
C3_AllTubesOfEveryCode ==
    (/\ pcC \in {"returned", "raised"}
     /\ tube_arg = PyStr("all")
     /\ codes_arg[1] # "int"
     /\ \A i \in 1..Len(codes) : api[codes[i]] # <<>>)
    => (pcC = "returned" /\ PairsOf(l) = EveryTube(codes))

\* get_timeseries_tube was called: get_metadata_tube had set timeseries_type
AfterTimeseriesTube ==
    /\ pcT \in {"returned", "raised"}
    /\ "timeseries_type" \in DOMAIN tube_metadata

\* C4: for every strategy and every timeseries_type of the tube,
\* get_timeseries_tube returns without an error; when only one of hand and
\* diver exists under merge or combine that series is returned; under "hand"
\* ("diver") the hand (diver) series is returned when the tube has it, and
\* the call still returns (nothing, or the only series) when it has not.
C4_SideSelection ==
    (AfterTimeseriesTube /\ tube_metadata["timeseries_type"] # "None") =>
        LET ts == tube_metadata["timeseries_type"]
        IN  /\ (ts \in {"hand", "diver"} \/ type_timeseries \in {"hand", "diver"})
                  => pcT = "returned"
            /\ (type_timeseries \in {"hand", "merge", "combine"} /\ ts = "hand")
                  => /\ hand_measurements[1] = "df"
                     /\ measurements = hand_measurements[2]
            /\ (type_timeseries \in {"diver", "merge", "combine"} /\ ts = "diver")
                  => /\ diver_measurements[1] = "df"
                     /\ measurements = diver_measurements[2]
            /\ (type_timeseries = "hand" /\ ts = "diver + hand")
                  => measurements = hand_measurements[2]
            /\ (type_timeseries = "diver" /\ ts = "diver + hand")
                  => measurements = diver_measurements[2]

\* the filters of the station whose code ends with the string form of the
\* requested tube number (1 when none was given)
RequestedNr == IF tube_nr = None THEN 1 ELSE tube_nr[2]

Matching ==
    {i \in 1..Len(metadata_mw.filters) :
        EndsWith(metadata_mw.filters[i].code, Str(RequestedNr))}

Resolved == pcT = "metadata"
Failed == pcT = "raised" /\ raisedT.err = "ValueError"

ResolvedTo(i) ==
    /\ Resolved
    /\ tube_metadata["name"] = RemoveDash(metadata_mw.filters[i].code)
    /\ tube_metadata["tube_top"] = metadata_mw.filters[i].top_level
    /\ tube_metadata["tube_nr"] = PyInt(RequestedNr)

\* C5: get_metadata_tube takes tube number 1 when none is given, resolves to
\* the first filter whose code ends with str(tube_nr), and raises a
\* ValueError naming the station when no filter matches; with filters ending
\* in 001 and 002, tube_nr=2 resolves to the one ending in 002 and tube_nr=9
\* raises.
C5_ResolveTube ==
    pcT \in {"metadata", "raised"} =>
        /\ IF Matching = {}
           THEN Failed /\ raisedT.about[1] = metadata_mw.name
           ELSE \E i \in Matching : (\A j \in Matching : i <= j) /\ ResolvedTo(i)
        /\ (/\ Len(metadata_mw.filters) = 2
            /\ metadata_mw.filters[1].code = FilterCode(<<"0", "0", "1">>)
            /\ metadata_mw.filters[2].code = FilterCode(<<"0", "0", "2">>))
           => /\ tube_nr = PyInt(2) => ResolvedTo(2)
              /\ tube_nr = PyInt(9) => Failed
              /\ tube_nr = None => ResolvedTo(1)

C5_Witness ==
    /\ Len(metadata_mw.filters) = 2
    /\ metadata_mw.filters[1].code = FilterCode(<<"0", "0", "1">>)
    /\ metadata_mw.filters[2].code = FilterCode(<<"0", "0", "2">>)
    /\ tube_nr = PyInt(2)
    /\ Resolved
    /\ tube_metadata["name"] = <<"B", "2", "7", "0", "0", "2">>

\* C6, as claimed: resolution succeeds only when exactly one filter matches,
\* and fails when none or more than one does.
C6_ExactlyOneMatch ==
    pcT \in {"metadata", "raised"} => (Resolved <=> Cardinality(Matching) = 1)

\* C6, amended: resolution fails exactly when no filter matches; when more
\* than one filter matches it succeeds, with the first of them.
C6_FailsOnlyWithoutMatch ==
    pcT \in {"metadata", "raised"} =>
        /\ Failed <=> Matching = {}
        /\ Resolved <=> Matching # {}
        /\ Cardinality(Matching) > 1 => ResolvedTo(Min(Matching))

C6_Witness ==
    /\ Resolved
    /\ Cardinality(Matching) = 2
    /\ tube_nr = PyInt(1)
    /\ tube_metadata["name"] = <<"B", "2", "7", "0", "0", "1">>
    /\ metadata_mw.filters[2].code = FilterCode(<<"0", "1", "1">>)

\* the time of the last row of the fetched series that holds a value
ValidRows == {i \in 1..Len(series_df.rows) :
                 \/ series_df.rows[i].value # NaN
                 \/ series_df.rows[i].flag # NaN
                 \/ series_df.rows[i].comment # NaN}

LastValidTime == series_df.rows[Max(ValidRows)].time

\* hours between today at midnight and the last valid timestamp
Age == clock * 24 - LastValidTime

C8_SortedByTime ==
    pcS \in {"fetched", "checked", "raised"} =>
        \A i \in 1..(Len(series_df.rows) - 1) :
            series_df.rows[i].time <= series_df.rows[i + 1].time

\* the API's events whose time string is "<date>T<hh>:00:00Z"
MatchesFormat(event) ==
    /\ event.time[1] = "str"
    /\ event.time[4] = "Z"
    /\ event.time[3] \in 0..23

MatchingEvents == SelectSeq(time_series_events, MatchesFormat)

\* C9: get_timeseries_uuid returns one row per event whose time matches
\* %Y-%m-%dT%H:%M:%SZ, in the events' order, at the event's time plus one
\* hour and with the event's value and comment; the other events are
\* dropped; an empty API result gives the empty frame.
C9_RowsShiftedOneHour ==
    pcS \in {"fetched", "checked", "raised"} =>
        /\ Len(series_df.rows) = Len(MatchingEvents)
        /\ \A i \in 1..Len(MatchingEvents) :
              /\ series_df.rows[i].time =
                    MatchingEvents[i].time[2] * 24 + MatchingEvents[i].time[3] + 1
              /\ series_df.rows[i].value = MatchingEvents[i].value
              /\ series_df.rows[i].comment = MatchingEvents[i].comment
        /\ time_series_events = <<>> => series_df = EmptyDataFrame

C9_Witness ==
    /\ pcS = "fetched"
    /\ Len(time_series_events) = 2
    /\ Len(series_df.rows) = 1
    /\ time_series_events[2].time = TimeStr(20, 23, "Z")
    /\ series_df.rows[1].time = 21 * 24


\* C10: no task of the second pool exists before every page of the first was
\* collected without a failure; a failed count request or a failed page
\* leaves the call with an exception, no task ever submitted and nothing
\* collected.
C10_DiscoveryBarrier ==
    /\ (task_future # <<>> \/ pcE \in {"fanout", "fanout_exit", "returned"}) =>
          /\ page_next = Len(urls) + 1
          /\ \A i \in 1..Len(urls) : page_future[i] = "done"
          /\ raisedE # Raise("ConnectionError", "discovery")
    /\ (\/ \E i \in 1..Len(page_future) : page_future[i] = "failed"
        \/ raisedE = Raise("ConnectionError", "discovery")) =>
          /\ pcE \in {"discovery", "discovery_exit", "raised"}
          /\ task_future = <<>>
          /\ obs_list = <<>>
    /\ pcE = "returned" => raisedE = NoError

C10_Witness ==
    /\ pcE = "raised"
    /\ \E i \in 1..Len(page_future) : page_future[i] = "failed"
    /\ raisedE = Raise("ConnectionError", "discovery")
    /\ task_future = <<>>

\* get_timeseries_tube handed a hand and a diver series, neither of them
\* empty, to _merge_timeseries
MergedBoth ==
    /\ pcT \in {"returned", "raised"}
    /\ type_timeseries = "merge"
    /\ hand_measurements[1] = "df"
    /\ diver_measurements[1] = "df"
    /\ ~IsEmpty(hand_measurements[2])
    /\ ~IsEmpty(diver_measurements[2])

\* C11: merging two non-empty series returns, without an error, the hand
\* rows whose time is strictly before the time of the diver series' first
\* row, followed by every diver row in its original order.
C11_HandBeforeFirstDiver ==
    MergedBoth =>
        /\ pcT = "returned"
        /\ measurements.rows =
              RowsBefore(hand_measurements[2], diver_measurements[2].rows[1].time)
              \o diver_measurements[2].rows

\* the same with first_valid_index() for the diver's first time, on the
\* merges whose diver series has a row that is not all null
C11_HandBeforeFirstValid ==
    (MergedBoth /\ first_valid_index(diver_measurements[2]) # <<>>) =>
        /\ pcT = "returned"
        /\ measurements.rows =
              RowsBefore(hand_measurements[2],
                         first_valid_index(diver_measurements[2])[1])
              \o diver_measurements[2].rows

\* a hand row is cut off by the diver's first row
C11_Cut ==
    /\ MergedBoth
    /\ pcT = "returned"
    /\ Len(measurements.rows) < Len(hand_measurements[2].rows)
                                + Len(diver_measurements[2].rows)


\* get_timeseries_tube handed a hand and a diver series, one of them at
\* least empty, to _merge_timeseries
MergedWithEmptySide ==
    /\ pcT \in {"returned", "raised"}
    /\ type_timeseries = "merge"
    /\ hand_measurements[1] = "df"
    /\ diver_measurements[1] = "df"
    /\ IsEmpty(hand_measurements[2]) \/ IsEmpty(diver_measurements[2])

\* the rows and the columns of two frames are the same
SameSeries(a, b) == a.rows = b.rows /\ a.columns = b.columns

\* C12: merging with an empty side never fails and returns the other side:
\* an empty hand series with a non-empty diver series gives the diver
\* series, a non-empty hand series with an empty diver series gives the hand
\* series, and two empty series give an empty series.
C12_EmptySideReturnsOther ==
    MergedWithEmptySide =>
        LET hand == hand_measurements[2]
            diver == diver_measurements[2]
        IN  /\ pcT = "returned"
            /\ (IsEmpty(hand) /\ ~IsEmpty(diver)) => SameSeries(measurements, diver)
            /\ (~IsEmpty(hand) /\ IsEmpty(diver)) => SameSeries(measurements, hand)
            /\ (IsEmpty(hand) /\ IsEmpty(diver)) => IsEmpty(measurements)

\* get_timeseries_tube handed a non-empty hand series and a diver series,
\* both fetched, to _combine_timeseries
CombinedBoth ==
    /\ pcT \in {"returned", "raised"}
    /\ type_timeseries = "combine"
    /\ hand_measurements[1] = "df"
    /\ diver_measurements[1] = "df"
    /\ ~IsEmpty(hand_measurements[2])

\* the rows of df at time t
RowsAt(df, t) == {i \in 1..Len(df.rows) : df.rows[i].time = t}

\* C13: combining a non-empty hand series with a diver series, both as
\* fetched, returns a table with the columns value_hand, value_diver,
\* flag_hand, flag_diver and one row per distinct timestamp of either side;
\* at a timestamp one side lacks, that side's value and flag are null.
C13_CombineShape ==
    CombinedBoth =>
        LET hand == hand_measurements[2]
            diver == diver_measurements[2]
        IN  /\ pcT = "returned"
            /\ \A c \in {"value_hand", "value_diver", "flag_hand", "flag_diver"} :
                  HasColumn(measurements, c)
            /\ Len(measurements.rows) = Cardinality(Times(hand) \cup Times(diver))
            /\ Times(measurements) = Times(hand) \cup Times(diver)
            /\ \A i \in 1..Len(measurements.rows) :
                  LET r == measurements.rows[i]
                  IN  /\ RowsAt(hand, r.time) = {} =>
                            (r.value_hand = NaN /\ r.flag_hand = NaN)
                      /\ RowsAt(diver, r.time) = {} =>
                            (r.value_diver = NaN /\ r.flag_diver = NaN)

\* the series references of the filter the tube number resolves to
TubeSeries == metadata_mw.filters[Min(Matching)].timeseries

\* the start of the tube's series of exactly that name, "None" when the tube
\* has no such series or the series has no start
StartOf(name) ==
    LET at == {i \in 1..Len(TubeSeries) : TubeSeries[i].name = name}
    IN  IF at = {} THEN "None" ELSE TubeSeries[Max(at)].start

\* C14: timeseries_type follows from the starts of the tube's series named
\* exactly "WNS9040.hand" (hand) and "WNS9040" (diver), series of any other
\* name being ignored: both give "diver + hand", only diver "diver", only
\* hand "hand", neither None; a tube without series references gets None
\* and no series detail is requested.
C14_TimeseriesType ==
    Resolved =>
        LET hand == StartOf("WNS9040.hand") # "None"
            diver == StartOf("WNS9040") # "None"
        IN  /\ tube_metadata["timeseries_type"] =
                  IF hand /\ diver THEN "diver + hand"
                  ELSE IF diver THEN "diver"
                  ELSE IF hand THEN "hand"
                  ELSE "None"
            /\ TubeSeries = <<>> =>
                  /\ tube_metadata["timeseries_type"] = "None"
                  /\ requested = <<>>

C14_Witness ==
    /\ Resolved
    /\ TubeSeries = <<SeriesHandNoStart, SeriesDiver>>
    /\ tube_metadata["timeseries_type"] = "diver"
    /\ Len(requested) = 2

============================================================================
